---- MODULE Spec2Model ----
(***************************************************************************)
(* Record lock coordination of the hospital transfer UI.                   *)
(*                                                                         *)
(* The browser client (lock module, ui.js, the entry script) is modelled   *)
(* from its source.  The lock coordinator it talks to over HTTP and        *)
(* Socket.IO is not part of the repository sources; it is modelled from    *)
(* sections 3 and 4.1 of the specification.                                *)
(***************************************************************************)
EXTENDS Integers, Sequences, FiniteSets, TLC

\* ----------------------------------------------------------------- bounds
MaxTasks  == 2      \* handler invocations of the client suspended at an await
MaxEvents == 2      \* push events queued on the socket and not yet delivered
MaxActs   == 5      \* interventions of the environment: user gestures, operations
                    \* of the other holder, resynchronisations, lapsed leases,
                    \* failed requests

\* --------------------------------------------------------------- constants
Codes   == {"A", "B"}          \* resource codes offered by the code selector
Me      == "u1"                \* currentUserId of the modelled client
Other   == "u2"                \* another holder
Holders == {Me, Other}
None    == "none"              \* null / undefined / absent
LeaseTTL == 2                  \* lease_ttl

Off     == -1                  \* no timeout pending
\* Session clock, in units of two minutes.
IdleTimeout    == 10           \* IDLE_TIMEOUT (config.js)
WarningBefore  == 1            \* WARNING_BEFORE (config.js)
AutoLogoutTime == 15           \* AUTO_LOGOUT_TIME (main.js)

NoLocks == [c \in Codes |-> None]          \* the empty object {}
Snapshots == [Codes -> Holders \cup {None}]

VARIABLES
  \* coordinator
  leases,              \* set of Lease records
  events,              \* push events on their way to the client's socket
  beacons,             \* sendBeacon release requests on their way
  \* client globals (config.js)
  LOCK_AVAILABLE, currentLockCode, currentLocks, heartbeatInterval,
  currentData,
  intervals,           \* setInterval timers created and not cleared
  \* client page
  initPc,              \* position of initApp
  probe,               \* what detectLockAPI's status query settled with
  socket,              \* TRUE once initSocket has registered the handlers
  options,             \* option values of #codeSelect
  disabled,            \* options with opt.disabled = true
  selected,            \* codeSel.value
  visible,             \* document.visibilityState = 'visible'
  tasks,               \* suspended async handlers, by slot
  status,              \* what setStatus last showed: none, in_use, acquire_failed,
                       \* nolock, cleared, saved, save_failed, or info (any
                       \* other message)
  warned,              \* console.warn('Heartbeat failed:') has been written
  acts,                \* interventions of the environment so far
  \* client session (ui.js, main.js)
  sessionJs,           \* the script whose initLogoutHandler and initAutoLogout are
                       \* in effect: both files declare them, the one loaded last wins
  isDirty,             \* window.isDirty
  href,                \* "logout" once location.href = '/logout' was assigned
  dialogs,             \* the dialogs open: logout, warning, save
  idleTimer,           \* time left on the idle timeout, Off when none is pending
  finalTimer,          \* time left on the warning dialog's timeout, Off when none
  sinceActivity,       \* time since the last user activity
  heldAtClick          \* currentLockCode when the logout link was last clicked

coordVars == <<leases, events, beacons>>
lockVars  == <<LOCK_AVAILABLE, currentLockCode, currentLocks, heartbeatInterval,
               intervals>>
pageVars  == <<initPc, probe, socket, options, disabled, selected, visible,
               currentData, status, warned>>
sessionVars == <<sessionJs, isDirty, href, dialogs, idleTimer, finalTimer,
                 sinceActivity, heldAtClick>>
vars == <<coordVars, lockVars, pageVars, tasks, acts, sessionVars>>

\* ------------------------------------------------------------ coordinator
\* Section 3: a Lease; section 4.1: the operations.

\* Time is kept relative: a lease records now - last_renewed_at as its age.
\* acquired_at is a logical timestamp: the coordinator's clock advances with
\* every intervention of the environment.
Now == acts

Lease(c, h) == [resource_code |-> c, holder_id |-> h, acquired_at |-> Now,
                age |-> 0]

\* A Lease is live iff now - last_renewed_at < lease_ttl.
LiveForever(l) == TRUE

Live(l) == l.age < LeaseTTL

LiveFor(c) == {l \in leases : l.resource_code = c /\ Live(l)}

\* acquire grants if no live lease exists, or the live lease is the requester's.
AcquireGrantedBroken(c, h) == TRUE

AcquireGranted(c, h) == \A l \in LiveFor(c) : l.holder_id = h

\* The lease table after acquire(c, h): a re-entrant acquire changes nothing,
\* a grant replaces whatever expired lease was left for c, a denial changes nothing.
AfterAcquireRestamps(c, h) ==
  IF ~AcquireGranted(c, h) THEN leases
  ELSE {l \in leases : l.resource_code # c} \cup {Lease(c, h)}

AfterAcquire(c, h) ==
  IF ~AcquireGranted(c, h) THEN leases
  ELSE IF \E l \in LiveFor(c) : l.holder_id = h THEN leases
  ELSE {l \in leases : l.resource_code # c \/ Live(l)} \cup {Lease(c, h)}

\* renew: ok | not_found | not_owner.
RenewResult(c, h) ==
  IF \E l \in LiveFor(c) : l.holder_id = h THEN "ok"
  ELSE IF LiveFor(c) # {} THEN "not_owner"
  ELSE "not_found"

AfterRenewTakesBack(c, h) ==
  {IF l.resource_code = c
     THEN [l EXCEPT !.holder_id = h, !.age = 0] ELSE l : l \in leases}

AfterRenew(c, h) ==
  {IF l.resource_code = c /\ l.holder_id = h /\ Live(l)
     THEN [l EXCEPT !.age = 0] ELSE l : l \in leases}

\* release: deletes the requester's lease; absent or foreign is a no-op.
ReleaseDeletes(c, h) == \E l \in LiveFor(c) : l.holder_id = h

AfterReleaseAnyHolder(c, h) == {l \in leases : l.resource_code # c}

AfterRelease(c, h) ==
  {l \in leases : ~(l.resource_code = c /\ l.holder_id = h)}

\* status: all live leases.
HolderOf(ls, c) ==
  IF \E l \in ls : l.resource_code = c
    THEN (CHOOSE l \in ls : l.resource_code = c).holder_id
    ELSE None

StatusSnapshot == [c \in Codes |-> HolderOf(LiveFor(c), c)]

\* Push events.  Only a connected socket receives them.
Event(t, c, h, ls) == [type |-> t, code |-> c, user |-> h, locks |-> ls]

Publish(pub, e) == IF pub /\ socket THEN Append(events, e) ELSE events

CanPublish == Len(events) < MaxEvents


\* ------------------------------------------------------------- transport
\* What a fetch() settles with: it rejects ("throw"), or resolves with a
\* response that has an HTTP status, a content type and a body.
Pending == [k |-> "req", httpOk |-> FALSE, ctype |-> None, body |-> None,
            locks |-> NoLocks]
Rejected == [Pending EXCEPT !.k = "throw"]
Response(ok, ct, b, ls) == [k |-> "resp", httpOk |-> ok, ctype |-> ct,
                            body |-> b, locks |-> ls]

\* Transport and protocol failures of a lock RPC.
Failures == {Rejected,
             Response(FALSE, "html", "page", NoLocks),      \* proxy error page
             Response(TRUE, "json", "garbled", NoLocks),    \* unparsable JSON
             Response(FALSE, "json", "notok", NoLocks)}     \* HTTP 500, {ok:false}

\* safeJSON(resp): the parsed body, or {ok:false,_nonjson} / {ok:false,_parseError}.
safeJSON(resp) ==
  IF resp.ctype # "json"
    THEN [ok |-> FALSE, nonjson |-> TRUE, parseError |-> FALSE, locks |-> NoLocks]
  ELSE IF resp.body = "garbled"
    THEN [ok |-> FALSE, nonjson |-> FALSE, parseError |-> TRUE, locks |-> NoLocks]
  ELSE [ok |-> resp.body = "ok", nonjson |-> FALSE, parseError |-> FALSE,
        locks |-> resp.locks]

\* r.ok && j.ok
Succeeded(resp) == resp.k = "resp" /\ resp.httpOk /\ safeJSON(resp).ok

\* ----------------------------------------------------------------- tasks
\* A suspended handler: which handler, the code it works on, the await it is
\* suspended at, the code named in the pending lock RPC, and the RPC's state.
\* A fillFromServer that released the previous code first is of kind "switch"
\* up to the answer of its acquire.
Idle == [kind |-> "idle", code |-> None, pc |-> "idle", arg |-> None,
         rpc |-> Pending]
Task(kd, c, p, a) == [kind |-> kd, code |-> c, pc |-> p, arg |-> a,
                      rpc |-> Pending]

\* tasks lists the suspended handlers in the order they were suspended; Idle
\* stands for a handler that has returned.
Slots == DOMAIN tasks
HasRoom == Len(tasks) < MaxTasks
Without(i) == [j \in 1..(Len(tasks) - 1) |-> IF j < i THEN tasks[j] ELSE tasks[j + 1]]
Spawn(t) == IF t = Idle THEN tasks ELSE Append(tasks, t)
Resume(i, t) == IF t = Idle THEN Without(i) ELSE [tasks EXCEPT ![i] = t]

AcquirePcs == {"acquire_wait"}
ReleasePcs == {"release_wait", "release2_wait", "clear_wait",
               "logout_wait", "saved_wait"}
RenewPcs   == {"hb_wait"}
StatusPcs  == {"locks_wait"}
LockPcs    == AcquirePcs \cup ReleasePcs \cup RenewPcs \cup StatusPcs

\* ------------------------------------------------- client lock functions
\* The lock globals and the selector decoration, as one value the functions
\* below transform; an action commits the value its handler ends with.
Cur == [avail |-> LOCK_AVAILABLE, cur |-> currentLockCode,
        locks |-> currentLocks, timer |-> heartbeatInterval,
        live |-> intervals,
        opts |-> options, dis |-> disabled, st |-> status]

\* decorateCodeSelect(): an option is disabled iff the lock API is in use and the
\* cache names another user for it; the locally owned option is re-enabled.
LockedByOther(s, o) == s.avail /\ s.locks[o] # None /\ s.locks[o] # Me

decorateCodeSelect(s) ==
  [s EXCEPT !.dis = {o \in s.opts : LockedByOther(s, o) /\ o # s.cur}]

\* stopHeartbeat(): clears the timer heartbeatInterval refers to, if any.
stopHeartbeat(s) ==
  IF s.timer THEN [s EXCEPT !.timer = FALSE, !.live = @ - 1] ELSE s

\* startHeartbeat(): a new timer is created; heartbeatInterval refers to it.
startHeartbeatKeepsOld(s) ==
  IF ~s.avail \/ s.cur = None THEN s
  ELSE [s EXCEPT !.timer = TRUE, !.live = @ + 1]

startHeartbeat(s) ==
  IF ~s.avail \/ s.cur = None THEN s
  ELSE [stopHeartbeat(s) EXCEPT !.timer = TRUE, !.live = @ + 1]

setStatus(s, m) == [s EXCEPT !.st = m]

\* acquireLock(code) up to its first await.
AcquireEntryNoGuard(s, code) ==
  IF s.locks[code] # None /\ s.locks[code] # Me THEN "false" ELSE "fetch"

AcquireEntry(s, code) ==
  IF ~s.avail THEN "true"
  ELSE IF s.locks[code] # None /\ s.locks[code] # Me THEN "false"
  ELSE "fetch"

\* acquireLock(code) after the fetch settled with resp: the value returned.
AcquireReturns(resp) ==
  IF Succeeded(resp) THEN TRUE
  ELSE IF resp.k = "throw" THEN TRUE
  ELSE IF safeJSON(resp).nonjson \/ safeJSON(resp).parseError THEN TRUE
  ELSE FALSE

Degrade(s) ==
  decorateCodeSelect([s EXCEPT !.avail = FALSE, !.cur = None, !.locks = NoLocks])

GrantLocalReenables(s, code) ==
  startHeartbeat(decorateCodeSelect(
    [s EXCEPT !.avail = TRUE, !.cur = code, !.locks[code] = Me]))

GrantLocal(s, code) ==
  startHeartbeat(decorateCodeSelect(
    [s EXCEPT !.cur = code, !.locks[code] = Me]))

\* acquireLock(code) after the fetch settled with resp: the globals.
AcquireSettled(s, code, resp) ==
  IF Succeeded(resp) THEN GrantLocal(s, code)
  ELSE IF resp.k = "throw" THEN setStatus(Degrade(s), "nolock")
  ELSE IF safeJSON(resp).nonjson \/ safeJSON(resp).parseError
    THEN setStatus(Degrade(s), "nolock")
  ELSE setStatus(s, "acquire_failed")

\* releaseLock(code): how the release is delivered.
ReleaseMode(s, vis) ==
  IF ~s.avail THEN "local" ELSE IF ~vis THEN "beacon" ELSE "fetch"

\* releaseLock(code): the finally block.
ReleaseFinallyKeepsOwner(s, code) ==
  decorateCodeSelect([s EXCEPT !.locks[code] = IF @ = Me THEN None ELSE @])

ReleaseFinally(s, code) ==
  decorateCodeSelect(
    [s EXCEPT !.locks[code] = IF @ = Me THEN None ELSE @,
              !.cur = IF @ = code THEN None ELSE @])

\* releaseLock(code) up to its first await (all of it unless a fetch is sent).
ReleaseEntry(s, code, vis) ==
  CASE ReleaseMode(s, vis) = "local"  -> [stopHeartbeat(s) EXCEPT !.cur = None]
    [] ReleaseMode(s, vis) = "beacon" -> ReleaseFinally(stopHeartbeat(s), code)
    [] OTHER                          -> stopHeartbeat(s)

Commit(s) ==
  /\ LOCK_AVAILABLE' = s.avail
  /\ currentLockCode' = s.cur
  /\ currentLocks' = s.locks
  /\ heartbeatInterval' = s.timer
  /\ intervals' = s.live
  /\ options' = s.opts
  /\ disabled' = s.dis
  /\ status' = s.st


\* ------------------------------------------------------------------ init
\* The page has loaded config.js and DOMContentLoaded has run up to the first
\* await of initApp: detectLockAPI has sent its status query.
Init ==
  /\ leases = {} /\ events = <<>> /\ beacons = {}
  /\ LOCK_AVAILABLE = FALSE /\ currentLockCode = None
  /\ currentLocks = NoLocks /\ heartbeatInterval = FALSE /\ intervals = 0
  /\ currentData = None
  /\ initPc = "probe_wait" /\ probe = Pending /\ socket = FALSE
  /\ options = {} /\ disabled = {} /\ selected = None /\ visible = TRUE
  /\ tasks = <<>>
  /\ status = "none" /\ warned = FALSE
  /\ acts = 0
  /\ sessionJs = "ui.js" /\ isDirty = FALSE /\ href = "page" /\ dialogs = {}
  /\ idleTimer = Off /\ finalTimer = Off /\ sinceActivity = 0
  /\ heldAtClick = None

\* ------------------------------------------------- coordinator: actions
Room(pub) == ~(pub /\ socket) \/ CanPublish

\* Time passes for the lease of c with no renewal arriving: it ages to
\* lease_ttl and is expired from then on.
Aged(l, c) == IF l.resource_code = c THEN [l EXCEPT !.age = LeaseTTL] ELSE l

Lapse(c) ==
  /\ acts < MaxActs
  /\ LiveFor(c) # {}
  /\ leases' = {Aged(l, c) : l \in leases}
  /\ acts' = acts + 1
  /\ UNCHANGED <<sessionVars, events, beacons, lockVars, pageVars, tasks>>

\* The periodic sweep drops the expired leases.
Sweep ==
  /\ \E l \in leases : ~Live(l)
  /\ leases' = {l \in leases : Live(l)}
  /\ UNCHANGED <<sessionVars, events, beacons, lockVars, pageVars, tasks, acts>>

OtherAcquire(c) ==
  /\ acts < MaxActs
  /\ Room(AcquireGranted(c, Other))
  /\ leases' = AfterAcquire(c, Other)
  /\ events' = Publish(AcquireGranted(c, Other),
                       Event("lock_acquired", c, Other, NoLocks))
  /\ acts' = acts + 1
  /\ UNCHANGED <<sessionVars, beacons, lockVars, pageVars, tasks>>

OtherRenew(c) ==
  /\ acts < MaxActs
  /\ \E l \in leases : l.resource_code = c /\ l.holder_id = Other
  /\ leases' = AfterRenew(c, Other)
  /\ acts' = acts + 1
  /\ UNCHANGED <<sessionVars, events, beacons, lockVars, pageVars, tasks>>

OtherRelease(c) ==
  /\ acts < MaxActs
  /\ Room(ReleaseDeletes(c, Other))
  /\ leases' = AfterRelease(c, Other)
  /\ events' = Publish(ReleaseDeletes(c, Other),
                       Event("lock_released", c, Other, NoLocks))
  /\ acts' = acts + 1
  /\ UNCHANGED <<sessionVars, beacons, lockVars, pageVars, tasks>>

\* full_snapshot(): on-demand resynchronisation.
Resync ==
  /\ acts < MaxActs
  /\ socket /\ CanPublish
  /\ events' = Append(events, Event("lock_status_update", None, None, StatusSnapshot))
  /\ acts' = acts + 1
  /\ UNCHANGED <<sessionVars, leases, beacons, lockVars, pageVars, tasks>>

\* The coordinator serves the request a suspended handler is waiting on.
CoordAcquire(i) ==
  /\ tasks[i].pc \in AcquirePcs /\ tasks[i].rpc.k = "req"
  /\ Room(AcquireGranted(tasks[i].arg, Me))
  /\ leases' = AfterAcquire(tasks[i].arg, Me)
  /\ events' = Publish(AcquireGranted(tasks[i].arg, Me),
                       Event("lock_acquired", tasks[i].arg, Me, NoLocks))
  /\ tasks' = [tasks EXCEPT ![i].rpc =
                 IF AcquireGranted(tasks[i].arg, Me)
                   THEN Response(TRUE, "json", "ok", NoLocks)
                   ELSE Response(TRUE, "json", "denied", NoLocks)]
  /\ UNCHANGED <<sessionVars, beacons, lockVars, pageVars, acts>>

CoordRelease(i) ==
  /\ tasks[i].pc \in ReleasePcs /\ tasks[i].rpc.k = "req"
  /\ Room(ReleaseDeletes(tasks[i].arg, Me))
  /\ leases' = AfterRelease(tasks[i].arg, Me)
  /\ events' = Publish(ReleaseDeletes(tasks[i].arg, Me),
                       Event("lock_released", tasks[i].arg, Me, NoLocks))
  /\ tasks' = [tasks EXCEPT ![i].rpc = Response(TRUE, "json", "ok", NoLocks)]
  /\ UNCHANGED <<sessionVars, beacons, lockVars, pageVars, acts>>

\* The renew is answered ok, not_found or not_owner.  The heartbeat callback
\* reads nothing from the answer and ends when it arrives.
CoordRenew(i) ==
  /\ tasks[i].pc \in RenewPcs /\ tasks[i].rpc.k = "req"
  /\ leases' = AfterRenew(tasks[i].arg, Me)
  /\ tasks' = Resume(i, Idle)
  /\ UNCHANGED <<sessionVars, events, beacons, lockVars, pageVars, acts>>

CoordStatus(i) ==
  /\ tasks[i].pc \in StatusPcs /\ tasks[i].rpc.k = "req"
  /\ tasks' = [tasks EXCEPT ![i].rpc = Response(TRUE, "json", "ok", StatusSnapshot)]
  /\ UNCHANGED <<sessionVars, coordVars, lockVars, pageVars, acts>>

CoordProbe ==
  /\ initPc = "probe_wait" /\ probe.k = "req"
  /\ probe' = Response(TRUE, "json", "ok", StatusSnapshot)
  /\ UNCHANGED <<sessionVars, coordVars, lockVars, tasks, initPc, warned, socket, options, disabled,
                 selected, visible, currentData, status, acts>>

\* A release sent with sendBeacon arrives, or never does.
CoordBeacon(c) ==
  /\ c \in beacons
  /\ Room(ReleaseDeletes(c, Me))
  /\ leases' = AfterRelease(c, Me)
  /\ events' = Publish(ReleaseDeletes(c, Me), Event("lock_released", c, Me, NoLocks))
  /\ beacons' = beacons \ {c}
  /\ UNCHANGED <<sessionVars, lockVars, pageVars, tasks, acts>>

BeaconLost(c) ==
  /\ c \in beacons
  /\ beacons' = beacons \ {c}
  /\ UNCHANGED <<sessionVars, leases, events, lockVars, pageVars, tasks, acts>>

\* A lock RPC fails: before the coordinator saw it, or on the way back.  The
\* client reads nothing from a release response and only success from a status
\* response, so for these one failure stands for all.
Fault(i, f) ==
  /\ acts < MaxActs
  /\ tasks[i].pc \in LockPcs /\ tasks[i].rpc \notin Failures
  /\ tasks[i].pc \notin RenewPcs
  /\ tasks[i].pc \in ReleasePcs \cup StatusPcs
       => tasks[i].rpc.k = "req" /\ f = Rejected
  /\ tasks' = [tasks EXCEPT ![i].rpc = f]
  /\ acts' = acts + 1
  /\ UNCHANGED <<sessionVars, coordVars, lockVars, pageVars>>

ProbeFault(f) ==
  /\ acts < MaxActs
  /\ initPc = "probe_wait" /\ probe \notin Failures
  /\ probe' = f
  /\ acts' = acts + 1
  /\ UNCHANGED <<sessionVars, coordVars, lockVars, tasks, initPc, warned, socket, options, disabled,
                 selected, visible, currentData, status>>


\* ------------------------------------------------------ client: start-up
Wired == initPc = "ready"
CanGesture == Wired /\ visible /\ acts < MaxActs

\* detectLockAPI after its fetch settled.
detectLockAPINoSeed(s, resp) ==
  [s EXCEPT !.avail = Succeeded(resp)]

detectLockAPI(s, resp) ==
  IF Succeeded(resp)
    THEN [s EXCEPT !.avail = TRUE, !.locks = safeJSON(resp).locks]
    ELSE [s EXCEPT !.avail = FALSE]

\* detectLockAPI returns; initApp goes on to initDropdowns, initSocket and the
\* visibilitychange listener (initSessionInfo and testConnection, awaited in
\* between, are taken to answer within the step).
ProbeSettled ==
  /\ initPc = "probe_wait" /\ probe.k # "req"
  /\ Commit(detectLockAPI(Cur, probe))
  /\ initPc' = "ready"
  /\ socket' = TRUE
  /\ UNCHANGED <<sessionVars, coordVars, tasks, probe, warned, selected, visible, currentData, acts>>

\* ------------------------------------------------ client: socket handlers
OnLockAcquired ==
  /\ socket /\ events # <<>> /\ Head(events).type = "lock_acquired"
  /\ events' = Tail(events)
  /\ Commit(IF ~LOCK_AVAILABLE THEN Cur
            ELSE decorateCodeSelect(
                   [Cur EXCEPT !.locks[Head(events).code] = Head(events).user]))
  /\ UNCHANGED <<sessionVars, leases, beacons, tasks, initPc, probe, warned, socket, selected,
                 visible, currentData, acts>>

OnLockReleasedIgnored ==
  /\ socket /\ events # <<>> /\ Head(events).type = "lock_released"
  /\ events' = Tail(events)
  /\ UNCHANGED <<sessionVars, leases, beacons, lockVars, pageVars, tasks, acts>>

OnLockReleased ==
  /\ socket /\ events # <<>> /\ Head(events).type = "lock_released"
  /\ events' = Tail(events)
  /\ Commit(IF ~LOCK_AVAILABLE THEN Cur
            ELSE decorateCodeSelect(
                   [Cur EXCEPT !.locks[Head(events).code] = None]))
  /\ UNCHANGED <<sessionVars, leases, beacons, tasks, initPc, probe, warned, socket, selected,
                 visible, currentData, acts>>

OnLockStatusUpdateMerges ==
  /\ socket /\ events # <<>> /\ Head(events).type = "lock_status_update"
  /\ events' = Tail(events)
  /\ Commit(IF ~LOCK_AVAILABLE THEN Cur
            ELSE decorateCodeSelect(
                   [Cur EXCEPT !.locks = [c \in Codes |->
                      IF Head(events).locks[c] # None
                        THEN Head(events).locks[c] ELSE @[c]]]))
  /\ UNCHANGED <<sessionVars, leases, beacons, tasks, initPc, probe, warned, socket, selected,
                 visible, currentData, acts>>

OnLockStatusUpdate ==
  /\ socket /\ events # <<>> /\ Head(events).type = "lock_status_update"
  /\ events' = Tail(events)
  /\ Commit(IF ~LOCK_AVAILABLE THEN Cur
            ELSE decorateCodeSelect([Cur EXCEPT !.locks = Head(events).locks]))
  /\ UNCHANGED <<sessionVars, leases, beacons, tasks, initPc, probe, warned, socket, selected,
                 visible, currentData, acts>>

\* ------------------------------------------------------ client: heartbeat
\* The callback of a live timer: with a locally owned code it sends a renew
\* for currentLockCode; with none it does nothing.
HeartbeatTick ==
  /\ intervals > 0 /\ currentLockCode # None
  /\ HasRoom
  /\ \A i \in Slots : tasks[i].kind # "hb"
  /\ tasks' = Spawn(Task("hb", None, "hb_wait", currentLockCode))
  /\ UNCHANGED <<sessionVars, coordVars, lockVars, pageVars, acts>>

\* The catch block of the interval callback: the globals it leaves.
HeartbeatCaughtStops(s) == stopHeartbeat(s)

HeartbeatCaught(s) == s

\* The renew fails in transport: the callback logs a warning and ends.
HeartbeatFailed(i) ==
  /\ acts < MaxActs
  /\ tasks[i].pc = "hb_wait" /\ tasks[i].rpc.k = "req"
  /\ Commit(HeartbeatCaught(Cur))
  /\ tasks' = Resume(i, Idle)
  /\ warned' = TRUE
  /\ acts' = acts + 1
  /\ UNCHANGED <<sessionVars, coordVars, initPc, probe, socket, selected, visible,
                 currentData>>

\* ------------------------------------------- client: prefecture selector
\* prefSel change: the code selector is emptied and refilled with the items
\* fetchCodes returns (the record store answers within the step), then
\* fetchLocks() is called and, after it, decorateCodeSelect().
PrefChange(items) ==
  /\ CanGesture /\ HasRoom
  /\ selected' = None
  /\ acts' = acts + 1
  /\ IF items # {} /\ LOCK_AVAILABLE
       THEN /\ options' = items /\ disabled' = {}
            /\ tasks' = Spawn(Task("pref", None, "locks_wait", None))
       ELSE /\ options' = items /\ disabled' = {}
            /\ UNCHANGED tasks
  /\ UNCHANGED <<sessionVars, coordVars, lockVars, initPc, probe, warned, socket, visible,
                 currentData, status>>

\* fetchLocks after its fetch settled.
fetchLocks(s, resp) ==
  IF Succeeded(resp) THEN [s EXCEPT !.locks = safeJSON(resp).locks] ELSE s

LocksSettled(i) ==
  /\ tasks[i].pc = "locks_wait" /\ tasks[i].rpc.k # "req"
  /\ Commit(decorateCodeSelect(fetchLocks(Cur, tasks[i].rpc)))
  /\ tasks' = Resume(i, Idle)
  /\ UNCHANGED <<sessionVars, coordVars, initPc, probe, warned, socket, selected, visible,
                 currentData, acts>>


\* ------------------------------------------------ client: fillFromServer
\* fillFromServer from its call of acquireLock(code) to the next await.
FillAcquire(s, code) ==
  CASE AcquireEntry(s, code) = "true" ->
         [s |-> setStatus(s, "info"), t |-> Task("fill", code, "data_wait", None)]
    [] AcquireEntry(s, code) = "false" ->
         [s |-> decorateCodeSelect(setStatus(s, "in_use")), t |-> Idle]
    [] OTHER ->
         [s |-> s, t |-> Task("fill", code, "acquire_wait", code)]

\* codeSel change: fillFromServer() for the selected code.  A lock held for
\* another code is released first.
SelectCode(c) ==
  /\ CanGesture /\ HasRoom
  /\ c \in options \ disabled /\ c # selected
  /\ selected' = c
  /\ acts' = acts + 1
  /\ LET rel  == currentLockCode # None /\ currentLockCode # c
         mode == ReleaseMode(Cur, visible)
         s1   == IF rel THEN ReleaseEntry(Cur, currentLockCode, visible) ELSE Cur
         r    == FillAcquire(s1, c)
     IN IF rel /\ mode = "fetch"
          THEN /\ Commit(s1)
               /\ tasks' = Spawn(Task("switch", c, "release_wait", currentLockCode))
               /\ UNCHANGED beacons
          ELSE /\ Commit(r.s)
               /\ tasks' = Spawn(r.t)
               /\ beacons' = IF rel /\ mode = "beacon"
                               THEN beacons \cup {currentLockCode} ELSE beacons
  /\ UNCHANGED <<sessionVars, leases, events, initPc, probe, warned, socket, visible, currentData>>

\* The fill button, enabled by setButtons(true) once a record is loaded:
\* fillFromServer() for the code the selector still shows.
FillClick ==
  /\ CanGesture /\ HasRoom
  /\ currentData # None /\ selected # None
  /\ acts' = acts + 1
  /\ LET c    == selected
         rel  == currentLockCode # None /\ currentLockCode # c
         mode == ReleaseMode(Cur, visible)
         s1   == IF rel THEN ReleaseEntry(Cur, currentLockCode, visible) ELSE Cur
         r    == FillAcquire(s1, c)
     IN IF rel /\ mode = "fetch"
          THEN /\ Commit(s1)
               /\ tasks' = Spawn(Task("switch", c, "release_wait", currentLockCode))
               /\ UNCHANGED beacons
          ELSE /\ Commit(r.s)
               /\ tasks' = Spawn(r.t)
               /\ beacons' = IF rel /\ mode = "beacon"
                               THEN beacons \cup {currentLockCode} ELSE beacons
  /\ UNCHANGED <<sessionVars, leases, events, initPc, probe, warned, socket, selected, visible,
                 currentData>>

\* The release of the previous code settled: finally block, then acquireLock.
ReleaseSettled(i) ==
  /\ tasks[i].pc = "release_wait" /\ tasks[i].rpc.k # "req"
  /\ LET r == FillAcquire(ReleaseFinally(Cur, tasks[i].arg), tasks[i].code)
     IN /\ Commit(r.s)
        /\ tasks' = Resume(i, IF r.t.pc = "acquire_wait"
                              THEN [r.t EXCEPT !.kind = "switch"] ELSE r.t)
  /\ UNCHANGED <<sessionVars, coordVars, initPc, probe, warned, socket, selected, visible,
                 currentData, acts>>

\* The acquire settled: acquireLock returns, fillFromServer loads or gives up.
AcquireReply(i) ==
  /\ tasks[i].pc = "acquire_wait" /\ tasks[i].rpc.k # "req"
  /\ LET s1 == AcquireSettled(Cur, tasks[i].code, tasks[i].rpc)
     IN IF AcquireReturns(tasks[i].rpc)
          THEN /\ Commit(setStatus(s1, "info"))
               /\ tasks' = Resume(i, Task("fill", tasks[i].code, "data_wait", None))
          ELSE /\ Commit(decorateCodeSelect(s1))
               /\ tasks' = Resume(i, Idle)
  /\ UNCHANGED <<sessionVars, coordVars, initPc, probe, warned, socket, selected, visible,
                 currentData, acts>>

\* The record request settled: loaded, not found (the lock is released), or an
\* exception (caught, nothing released).
DataSettled(i, outcome) ==
  /\ tasks[i].pc = "data_wait"
  /\ outcome # "ok" => acts < MaxActs
  /\ acts' = IF outcome = "ok" THEN acts ELSE acts + 1
  /\ CASE outcome = "ok" ->
            /\ currentData' = tasks[i].code
            /\ Commit(setStatus(Cur, "info"))
            /\ tasks' = Resume(i, Idle)
            /\ UNCHANGED beacons
       [] outcome = "notok" ->
            LET s0 == setStatus(Cur, "info")
                mode == ReleaseMode(s0, visible)
            IN /\ Commit(ReleaseEntry(s0, tasks[i].code, visible))
               /\ tasks' = Resume(i, IF mode = "fetch"
                                     THEN Task("fill", tasks[i].code, "release2_wait",
                                               tasks[i].code)
                                     ELSE Idle)
               /\ beacons' = IF mode = "beacon"
                               THEN beacons \cup {tasks[i].code} ELSE beacons
               /\ UNCHANGED currentData
       [] OTHER ->
            /\ Commit(setStatus(Cur, "info"))
            /\ tasks' = Resume(i, Idle)
            /\ UNCHANGED <<beacons, currentData>>
  /\ UNCHANGED <<sessionVars, leases, events, initPc, probe, warned, socket, selected, visible>>

\* A release awaited with nothing after it but the finally block settled.
Release2Settled(i) ==
  /\ tasks[i].pc = "release2_wait" /\ tasks[i].rpc.k # "req"
  /\ Commit(ReleaseFinally(Cur, tasks[i].arg))
  /\ tasks' = Resume(i, Idle)
  /\ UNCHANGED <<sessionVars, coordVars, initPc, probe, warned, socket, selected, visible,
                 currentData, acts>>

\* ------------------------------------------------------ client: clearForm
\* clearForm after its release: selector emptied, record dropped.
ClearRest(s) ==
  decorateCodeSelect(setStatus([s EXCEPT !.opts = {}, !.dis = {}], "cleared"))

ClearForm ==
  /\ CanGesture
  /\ acts' = acts + 1
  /\ LET rel  == currentLockCode # None
         mode == ReleaseMode(Cur, visible)
         s1   == IF rel THEN ReleaseEntry(Cur, currentLockCode, visible) ELSE Cur
     IN IF rel /\ mode = "fetch"
          THEN /\ HasRoom
               /\ Commit(s1)
               /\ tasks' = Spawn(Task("clear", None, "clear_wait", currentLockCode))
               /\ UNCHANGED <<beacons, selected, currentData>>
          ELSE /\ Commit(ClearRest(s1))
               /\ selected' = None /\ currentData' = None
               /\ beacons' = IF rel /\ mode = "beacon"
                               THEN beacons \cup {currentLockCode} ELSE beacons
               /\ UNCHANGED tasks
  /\ UNCHANGED <<sessionVars, leases, events, initPc, probe, warned, socket, visible>>

ClearSettled(i) ==
  /\ tasks[i].pc = "clear_wait" /\ tasks[i].rpc.k # "req"
  /\ Commit(ClearRest(ReleaseFinally(Cur, tasks[i].arg)))
  /\ selected' = None /\ currentData' = None
  /\ tasks' = Resume(i, Idle)
  /\ UNCHANGED <<sessionVars, coordVars, initPc, probe, warned, socket, visible, acts>>

\* ----------------------------------------------------- client: visibility
\* visibilitychange to hidden: the owned lock is released with sendBeacon.
TabHidden ==
  /\ CanGesture
  /\ visible' = FALSE
  /\ acts' = acts + 1
  /\ IF initPc = "ready" /\ currentLockCode # None
       THEN /\ Commit(ReleaseEntry(Cur, currentLockCode, FALSE))
            /\ beacons' = IF ReleaseMode(Cur, FALSE) = "beacon"
                            THEN beacons \cup {currentLockCode} ELSE beacons
       ELSE UNCHANGED <<lockVars, options, disabled, status, beacons>>
  /\ UNCHANGED <<sessionVars, leases, events, tasks, initPc, probe, warned, socket, selected,
                 currentData>>

\* pagehide: the owned lock is released; releaseLock picks sendBeacon or fetch
\* by the visibility state at that moment, and with fetch its finally block
\* runs when the fetch has settled (the page is kept and shown again).  With
\* nothing owned the listener does nothing.
PageHide ==
  /\ Wired /\ acts < MaxActs
  /\ currentLockCode # None
  /\ acts' = acts + 1
  /\ Commit(ReleaseEntry(Cur, currentLockCode, visible))
  /\ LET mode == ReleaseMode(Cur, visible)
     IN /\ mode = "fetch" => HasRoom
        /\ tasks' = IF mode = "fetch"
                      THEN Spawn(Task("unload", None, "release2_wait", currentLockCode))
                      ELSE tasks
        /\ beacons' = IF mode = "beacon"
                        THEN beacons \cup {currentLockCode} ELSE beacons
  /\ UNCHANGED <<sessionVars, leases, events, initPc, probe, warned, socket, selected, visible,
                 currentData>>

TabShown ==
  /\ ~visible
  /\ visible' = TRUE
  /\ UNCHANGED <<sessionVars, coordVars, lockVars, tasks, initPc, probe, warned, socket, options,
                 disabled, selected, currentData, status, acts>>

\* ------------------------------------------------------- client: session
\* Logout, the dirty flag and the idle timeout.  The page is shown and the
\* coordinator is left to answer releases; the session starts from a state the
\* lock handlers above lead to.
OnPage == Wired /\ visible /\ href = "page"

\* What one user gesture dispatches.
Gestures == {"move", "press", "key", "scroll", "touch"}
EventsOf(g) ==
  CASE g = "move"   -> {"mousemove"}
    [] g = "press"  -> {"mousedown", "click"}
    [] g = "key"    -> {"keydown", "keypress", "input"}
    [] g = "scroll" -> {"scroll"}
    [] OTHER        -> {"touchstart"}

\* initAutoLogout: the events that restart the idle timeout.
Listened ==
  IF sessionJs = "ui.js"
    THEN {"mousedown", "mousemove", "keypress", "scroll", "touchstart", "click",
          "input"}
    ELSE {"mousedown", "keydown", "scroll", "touchstart"}

\* resetIdleTimer (ui.js), resetTimer (main.js): the pending timeout is cleared
\* and a new one is set.
resetIdleTimer ==
  idleTimer' = IF sessionJs = "ui.js" THEN IdleTimeout - WarningBefore
                                       ELSE AutoLogoutTime

\* A click on a button or link: mousedown and click reach the listeners of
\* initAutoLogout before the element's own handler runs.
Pressed == sinceActivity' = 0 /\ resetIdleTimer

Activity(g) ==
  /\ OnPage
  /\ sinceActivity' = 0
  /\ IF EventsOf(g) \cap Listened # {} THEN resetIdleTimer
                                      ELSE UNCHANGED idleTimer
  /\ UNCHANGED <<coordVars, lockVars, pageVars, tasks, acts, sessionJs, isDirty,
                 href, dialogs, finalTimer, heldAtClick>>

\* The user types into a cell: markDirty(), and the key events restart the
\* idle timeout.
Edit ==
  /\ OnPage /\ dialogs = {}
  /\ isDirty' = TRUE
  /\ sinceActivity' = 0 /\ resetIdleTimer
  /\ UNCHANGED <<coordVars, lockVars, pageVars, tasks, acts, sessionJs, href,
                 dialogs, finalTimer, heldAtClick>>

\* One unit of time passes with no timeout due.
Tick ==
  /\ OnPage
  /\ idleTimer # 0 /\ finalTimer # 0
  /\ idleTimer > 0 \/ finalTimer > 0
  /\ idleTimer' = IF idleTimer > 0 THEN idleTimer - 1 ELSE idleTimer
  /\ finalTimer' = IF finalTimer > 0 THEN finalTimer - 1 ELSE finalTimer
  /\ sinceActivity' = sinceActivity + 1
  /\ UNCHANGED <<coordVars, lockVars, pageVars, tasks, acts, sessionJs, isDirty,
                 href, dialogs, heldAtClick>>

\* The idle timeout fires.  ui.js: the warning dialog is shown and finalTimer
\* is set.  main.js: alert, then logout.
IdleFires ==
  /\ OnPage /\ idleTimer = 0
  /\ idleTimer' = Off
  /\ IF sessionJs = "ui.js"
       THEN /\ dialogs' = dialogs \cup {"warning"}
            /\ finalTimer' = WarningBefore
            /\ UNCHANGED href
       ELSE /\ href' = "logout"
            /\ UNCHANGED <<dialogs, finalTimer>>
  /\ UNCHANGED <<coordVars, lockVars, pageVars, tasks, acts, sessionJs, isDirty,
                 sinceActivity, heldAtClick>>

\* finalTimer fires: the warning dialog is removed; with unsaved changes the
\* save dialog is shown, otherwise logout.
FinalFires ==
  /\ OnPage /\ finalTimer = 0
  /\ finalTimer' = Off
  /\ IF isDirty
       THEN /\ dialogs' = (dialogs \ {"warning"}) \cup {"save"}
            /\ UNCHANGED href
       ELSE /\ dialogs' = dialogs \ {"warning"}
            /\ href' = "logout"
  /\ UNCHANGED <<coordVars, lockVars, pageVars, tasks, acts, sessionJs, isDirty,
                 idleTimer, sinceActivity, heldAtClick>>

\* auto-logout-continue: clearTimeout(finalTimer), dialog removed,
\* resetIdleTimer().
Continue ==
  /\ OnPage /\ "warning" \in dialogs
  /\ finalTimer' = Off
  /\ dialogs' = dialogs \ {"warning"}
  /\ Pressed
  /\ UNCHANGED <<coordVars, lockVars, pageVars, tasks, acts, sessionJs, isDirty,
                 href, heldAtClick>>

\* releaseLock(currentLockCode) called without await just before the page is
\* left: the request, if one is sent, arrives or is lost with the page.
DropLock ==
  IF currentLockCode = None
    THEN UNCHANGED <<lockVars, options, disabled, status, beacons>>
    ELSE /\ Commit(ReleaseEntry(Cur, currentLockCode, visible))
         /\ beacons' = IF ReleaseMode(Cur, visible) = "local"
                         THEN beacons ELSE beacons \cup {currentLockCode}

\* auto-logout-discard.
AutoDiscard ==
  /\ OnPage /\ "save" \in dialogs
  /\ isDirty' = FALSE
  /\ DropLock
  /\ href' = "logout"
  /\ Pressed
  /\ UNCHANGED <<leases, events, tasks, acts, initPc, probe, socket, selected,
                 visible, currentData, warned, sessionJs, dialogs, finalTimer,
                 heldAtClick>>

\* logout-discard.
LogoutDiscard ==
  /\ OnPage /\ "logout" \in dialogs
  /\ isDirty' = FALSE
  /\ DropLock
  /\ dialogs' = dialogs \ {"logout"}
  /\ href' = "logout"
  /\ Pressed
  /\ UNCHANGED <<leases, events, tasks, acts, initPc, probe, socket, selected,
                 visible, currentData, warned, sessionJs, finalTimer, heldAtClick>>

\* logout-cancel: the dialog is removed.
LogoutCancel ==
  /\ OnPage /\ "logout" \in dialogs
  /\ dialogs' = dialogs \ {"logout"}
  /\ Pressed
  /\ UNCHANGED <<coordVars, lockVars, pageVars, tasks, acts, sessionJs, isDirty,
                 href, finalTimer, heldAtClick>>

\* The logout link.  ui.js: the owned lock is released first, then the dirty
\* flag is looked at.  main.js: with unsaved changes confirm() is asked first
\* and a refusal ends the handler.
LogoutClick(confirmed) ==
  /\ OnPage /\ dialogs = {} /\ HasRoom
  /\ (sessionJs = "ui.js" \/ ~isDirty) => confirmed
  /\ Pressed
  /\ heldAtClick' = currentLockCode
  /\ IF ~confirmed
       THEN UNCHANGED <<lockVars, options, disabled, status, tasks, href, dialogs>>
       ELSE IF currentLockCode # None /\ ReleaseMode(Cur, visible) = "fetch"
         THEN /\ Commit(ReleaseEntry(Cur, currentLockCode, visible))
              /\ tasks' = Spawn(Task("click", None, "logout_wait", currentLockCode))
              /\ UNCHANGED <<href, dialogs>>
         ELSE /\ Commit(IF currentLockCode # None
                          THEN ReleaseEntry(Cur, currentLockCode, visible) ELSE Cur)
              /\ UNCHANGED tasks
              /\ IF sessionJs = "ui.js" /\ isDirty
                   THEN dialogs' = dialogs \cup {"logout"} /\ UNCHANGED href
                   ELSE href' = "logout" /\ UNCHANGED dialogs
  /\ UNCHANGED <<coordVars, acts, initPc, probe, socket, selected, visible,
                 currentData, warned, sessionJs, isDirty, finalTimer>>

\* The release awaited by the logout handler settled.
LogoutReleased(i) ==
  /\ OnPage
  /\ tasks[i].pc = "logout_wait" /\ tasks[i].rpc.k # "req"
  /\ Commit(ReleaseFinally(Cur, tasks[i].arg))
  /\ tasks' = Resume(i, Idle)
  /\ IF sessionJs = "ui.js" /\ isDirty
       THEN dialogs' = dialogs \cup {"logout"} /\ UNCHANGED href
       ELSE href' = "logout" /\ UNCHANGED dialogs
  /\ UNCHANGED <<coordVars, acts, initPc, probe, socket, selected, visible,
                 currentData, warned, sessionJs, isDirty, idleTimer, finalTimer,
                 sinceActivity, heldAtClick>>

\* The save handlers (logout-save, auto-logout-save) after saveToServer has
\* returned: isDirty = false, the owned lock is released and awaited, logout.
\* gone tells whether the handler reached location.href = '/logout'.
AfterSave(s, d) ==
  IF s.cur # None /\ ReleaseMode(s, visible) = "fetch"
    THEN [s |-> ReleaseEntry(s, s.cur, visible),
          t |-> Task(d, None, "saved_wait", s.cur), gone |-> FALSE]
    ELSE [s |-> IF s.cur # None THEN ReleaseEntry(s, s.cur, visible) ELSE s,
          t |-> Idle, gone |-> TRUE]

\* What saveToServer shows for the answer of the record store.
SaveStatus(outcome) == IF outcome = "ok" THEN "saved" ELSE "save_failed"

\* logout-save (d = logout) and auto-logout-save (d = save): saveToServer is
\* called; with no record loaded it returns at once.
SaveClick(d) ==
  /\ OnPage /\ d \in dialogs /\ HasRoom
  /\ Pressed
  /\ IF currentData = None
       THEN LET r == AfterSave(setStatus(Cur, "info"), d)
            IN /\ Commit(r.s)
               /\ tasks' = Spawn(r.t)
               /\ isDirty' = FALSE
               /\ href' = IF r.gone THEN "logout" ELSE href
               /\ dialogs' = IF r.gone /\ d = "logout" THEN dialogs \ {d}
                                                       ELSE dialogs
       ELSE /\ Commit(setStatus(Cur, "info"))
            /\ tasks' = Spawn(Task(d, None, "save_wait", None))
            /\ UNCHANGED <<isDirty, href, dialogs>>
  /\ UNCHANGED <<coordVars, acts, initPc, probe, socket, selected, visible,
                 currentData, warned, sessionJs, finalTimer, heldAtClick>>

\* The save request settled: saveToServer shows the result (and clears the
\* dirty flag on success), catches any exception and returns; the handler
\* goes on.
SaveSettled(i, outcome) ==
  /\ OnPage
  /\ tasks[i].pc = "save_wait"
  /\ LET r == AfterSave(setStatus(Cur, SaveStatus(outcome)), tasks[i].kind)
     IN /\ Commit(r.s)
        /\ tasks' = Resume(i, r.t)
        /\ isDirty' = FALSE
        /\ href' = IF r.gone THEN "logout" ELSE href
        /\ dialogs' = IF r.gone /\ tasks[i].kind = "logout"
                        THEN dialogs \ {"logout"} ELSE dialogs
  /\ UNCHANGED <<coordVars, acts, initPc, probe, socket, selected, visible,
                 currentData, warned, sessionJs, idleTimer, finalTimer,
                 sinceActivity, heldAtClick>>

\* The release awaited by a save handler settled: logout.
SavedReleased(i) ==
  /\ OnPage
  /\ tasks[i].pc = "saved_wait" /\ tasks[i].rpc.k # "req"
  /\ Commit(ReleaseFinally(Cur, tasks[i].arg))
  /\ tasks' = Resume(i, Idle)
  /\ dialogs' = IF tasks[i].kind = "logout" THEN dialogs \ {"logout"} ELSE dialogs
  /\ href' = "logout"
  /\ UNCHANGED <<coordVars, acts, initPc, probe, socket, selected, visible,
                 currentData, warned, sessionJs, isDirty, idleTimer, finalTimer,
                 sinceActivity, heldAtClick>>

\* The lock state the session starts from: a record open under its lock, no
\* record opened yet, or a record open in a session that started DEGRADED.
Editing ==
  /\ leases = {[resource_code |-> "A", holder_id |-> Me, acquired_at |-> 2,
                age |-> 0]}
  /\ LOCK_AVAILABLE = TRUE /\ currentLockCode = "A"
  /\ currentLocks = [NoLocks EXCEPT !["A"] = Me]
  /\ heartbeatInterval = TRUE /\ intervals = 1
  /\ currentData = "A" /\ selected = "A"
  /\ probe = Response(TRUE, "json", "ok", NoLocks)
  /\ options = Codes /\ disabled = {} /\ status = "info"
  /\ acts = 2

NothingOpen ==
  /\ leases = {}
  /\ LOCK_AVAILABLE = TRUE /\ currentLockCode = None
  /\ currentLocks = NoLocks
  /\ heartbeatInterval = FALSE /\ intervals = 0
  /\ currentData = None /\ selected = None
  /\ probe = Response(TRUE, "json", "ok", NoLocks)
  /\ options = {} /\ disabled = {} /\ status = "none"
  /\ acts = 0

EditingUnlocked ==
  /\ leases = {}
  /\ LOCK_AVAILABLE = FALSE /\ currentLockCode = None
  /\ currentLocks = NoLocks
  /\ heartbeatInterval = FALSE /\ intervals = 0
  /\ currentData = "A" /\ selected = "A"
  /\ probe = Rejected
  /\ options = Codes /\ disabled = {} /\ status = "info"
  /\ acts = 3

\* initApp has finished (initAutoLogout has started the idle timeout) and no
\* handler is suspended.
SessionInit ==
  /\ sessionJs \in {"ui.js", "main.js"}
  /\ isDirty = FALSE /\ href = "page" /\ dialogs = {}
  /\ idleTimer = IF sessionJs = "ui.js" THEN IdleTimeout - WarningBefore
                                        ELSE AutoLogoutTime
  /\ finalTimer = Off /\ sinceActivity = 0 /\ heldAtClick = None
  /\ events = <<>> /\ beacons = {} /\ tasks = <<>>
  /\ initPc = "ready" /\ socket = TRUE /\ visible = TRUE /\ warned = FALSE
  /\ Editing \/ NothingOpen \/ EditingUnlocked

SessionNext ==
  \/ \E g \in Gestures : Activity(g)
  \/ Edit
  \/ Tick
  \/ IdleFires
  \/ FinalFires
  \/ Continue
  \/ AutoDiscard
  \/ LogoutDiscard
  \/ LogoutCancel
  \/ \E confirmed \in BOOLEAN : LogoutClick(confirmed)
  \/ \E i \in Slots : LogoutReleased(i)
  \/ \E d \in {"logout", "save"} : SaveClick(d)
  \/ \E i \in Slots, o \in {"ok", "notok", "throw"} : SaveSettled(i, o)
  \/ \E i \in Slots : SavedReleased(i)
  \/ \E i \in Slots : CoordRelease(i)
  \/ \E i \in Slots, f \in Failures : Fault(i, f)
  \/ \E c \in Codes : CoordBeacon(c)
  \/ \E c \in Codes : BeaconLost(c)

SessionSpec == SessionInit /\ [][SessionNext]_vars

\* ------------------------------------------------------------------ next
Next ==
  \/ \E c \in Codes : Lapse(c)
  \/ Sweep
  \/ \E c \in Codes : OtherAcquire(c)
  \/ \E c \in Codes : OtherRenew(c)
  \/ \E c \in Codes : OtherRelease(c)
  \/ Resync
  \/ \E i \in Slots : CoordAcquire(i)
  \/ \E i \in Slots : CoordRelease(i)
  \/ \E i \in Slots : CoordRenew(i)
  \/ \E i \in Slots : CoordStatus(i)
  \/ CoordProbe
  \/ \E c \in Codes : CoordBeacon(c)
  \/ \E c \in Codes : BeaconLost(c)
  \/ \E i \in Slots, f \in Failures : Fault(i, f)
  \/ \E f \in Failures : ProbeFault(f)
  \/ ProbeSettled
  \/ OnLockAcquired
  \/ OnLockReleased
  \/ OnLockStatusUpdate
  \/ HeartbeatTick
  \/ \E i \in Slots : HeartbeatFailed(i)
  \/ \E items \in {{}, Codes} : PrefChange(items)
  \/ \E i \in Slots : LocksSettled(i)
  \/ \E c \in Codes : SelectCode(c)
  \/ FillClick
  \/ \E i \in Slots : ReleaseSettled(i)
  \/ \E i \in Slots : AcquireReply(i)
  \/ \E i \in Slots, o \in {"ok", "notok", "throw"} : DataSettled(i, o)
  \/ \E i \in Slots : Release2Settled(i)
  \/ ClearForm
  \/ \E i \in Slots : ClearSettled(i)
  \/ TabHidden
  \/ PageHide
  \/ TabShown

Spec == Init /\ [][Next]_vars

TypeOK ==
  /\ LOCK_AVAILABLE \in BOOLEAN /\ heartbeatInterval \in BOOLEAN
  /\ currentLockCode \in Codes \cup {None}
  /\ currentLocks \in Snapshots
  /\ disabled \subseteq options /\ options \subseteq Codes
  /\ Len(events) <= MaxEvents

\* ------------------------------------------------------------ properties
\* Session modes of the client once initApp has passed detectLockAPI.
Active   == initPc = "ready" /\ LOCK_AVAILABLE
Degraded == initPc = "ready" /\ ~LOCK_AVAILABLE

\* The status query of the startup probe came back as HTTP success carrying
\* parsable JSON with ok = true.
ProbeOk == /\ probe.k = "resp" /\ probe.httpOk
           /\ probe.ctype = "json" /\ probe.body = "ok"

\* DEGRADED from the first status probe, and DEGRADED later by a failed acquire.
ProbeFailed       == Degraded /\ ~ProbeOk
DegradedByAcquire == Degraded /\ ProbeOk

\* A step in which a handler sends a request awaited at one of pcs: a handler
\* is newly suspended there, or a suspended one moves on to there.
Sends(pcs) ==
  \/ /\ Len(tasks') = Len(tasks) + 1
     /\ tasks'[Len(tasks')].pc \in pcs
  \/ /\ Len(tasks') = Len(tasks)
     /\ \E i \in Slots : tasks'[i].pc # tasks[i].pc /\ tasks'[i].pc \in pcs

SendsBeacon == ~(beacons' \subseteq beacons)

Denied == Response(TRUE, "json", "denied", NoLocks)

\* C1: for every resource code at most one lease is live in every reachable
\* state, so at most one holder is confirmed as its owner, whatever the
\* interleaving of acquire, renew, release and expiry by the two holders.
C1_AtMostOneLiveLease ==
  \A c \in Codes :
    /\ Cardinality(LiveFor(c)) <= 1
    /\ Cardinality({l.holder_id : l \in LiveFor(c)}) <= 1

\* C1 witness: both holders contended for a code; the other holder has the live
\* lease and this client's acquire of the same code was answered denied.
C1_Contended ==
  \E i \in Slots :
    /\ tasks[i].pc = "acquire_wait" /\ tasks[i].rpc = Denied
    /\ \E l \in LiveFor(tasks[i].arg) : l.holder_id = Other

\* C2: once a failed acquire has made the session DEGRADED, no step of the
\* client sends an acquire, release, renew or status request, by fetch or by
\* beacon.
C2_NoLockRpcOnceDegraded ==
  [][DegradedByAcquire => ~(Sends(LockPcs) \/ SendsBeacon)]_vars

\* C3: while the session is DEGRADED after a failed acquire the lock cache is
\* empty and no resource is locally owned.
C3_DegradedCacheEmpty ==
  DegradedByAcquire => (currentLocks = NoLocks /\ currentLockCode = None)

\* C4: DEGRADED is permanent: a step from a DEGRADED state ends DEGRADED, and
\* the probe is not issued again (initApp does not return to detectLockAPI and
\* no status request is sent).
C4_DegradedIsPermanent ==
  [][Degraded => (Degraded' /\ probe' = probe /\ ~Sends(StatusPcs))]_vars

\* C4 witness: a session DEGRADED by a failed acquire in which the grant of
\* another acquire arrived afterwards and the session is still DEGRADED.
C4_StillDegraded == DegradedByAcquire /\ currentLockCode # None

\* C4 witness (probe side): a session DEGRADED from the probe in which the
\* user went on to pick a prefecture and a code.
C4_StillDegradedFromProbe == ProbeFailed /\ options # {} /\ selected # None

\* C5: when detectLockAPI returns, the session is ACTIVE with the cache equal
\* to the returned snapshot if the status query succeeded, and DEGRADED with an
\* empty cache if it failed in any way.
C5_ProbeOutcome ==
  [][(initPc = "probe_wait" /\ initPc' = "ready") =>
       IF ProbeOk
         THEN Active' /\ currentLocks' = probe.locks
         ELSE Degraded' /\ currentLocks' = NoLocks]_vars

\* C5 witness: the probe has just returned with a snapshot naming the other
\* holder and seeded the cache with it.
C5_Seeded ==
  /\ Active /\ acts = 1 /\ events = <<>>
  /\ probe.locks # NoLocks /\ currentLocks = probe.locks

\* C5 witness (failure side): the probe has returned with an HTTP error status
\* and the session is DEGRADED.
C5_ProbeRefused ==
  /\ Degraded /\ probe.k = "resp" /\ ~probe.httpOk /\ currentLocks = NoLocks

\* C6: when the first status probe failed, acquireLock returns true for every
\* code without asking the coordinator, no refusal is shown, and no option of
\* the code selector is disabled.
C6_ProbeFailedAllEditable ==
  ProbeFailed =>
    /\ \A c \in Codes : AcquireEntry(Cur, c) = "true"
    /\ disabled = {}
    /\ status \notin {"in_use", "acquire_failed"}
    /\ \A i \in Slots : tasks[i].pc = "data_wait"

\* C6 witness: the probe failed, the other holder has a live lease of A at the
\* coordinator, and this client is loading A after acquireLock returned true.
C6_EditableWhileHeld ==
  /\ ProbeFailed
  /\ \E l \in LiveFor("A") : l.holder_id = Other
  /\ \E i \in Slots : tasks[i].pc = "data_wait" /\ tasks[i].code = "A"
  /\ "A" \in options

\* C7: when the renew sent for the locally owned code is answered not_owner,
\* the client stops treating the code as locally owned: currentLockCode is
\* cleared and the heartbeat timer is cancelled.
C7_NotOwnerDowngrades ==
  [][\A i \in Slots :
       (/\ CoordRenew(i)
        /\ RenewResult(tasks[i].arg, Me) = "not_owner"
        /\ currentLockCode = tasks[i].arg)
       => (currentLockCode' = None /\ ~heartbeatInterval')]_vars

\* acquireLock(c) is called in this step: by fillFromServer right away, or
\* after the release of the previous code has settled.
AcquireCalled(c) ==
  \/ /\ SelectCode(c) \/ (FillClick /\ selected = c)
     /\ ~(/\ currentLockCode # None /\ currentLockCode # c
          /\ ReleaseMode(Cur, visible) = "fetch")
  \/ \E i \in Slots : ReleaseSettled(i) /\ tasks[i].code = c

\* C8: acquireLock never refuses a code from the cache alone: whenever it
\* refuses without asking the coordinator, another holder has a live lease of
\* that code at the coordinator.
C8_CacheNotAuthoritative ==
  [][\A c \in Codes :
       (/\ AcquireCalled(c)
        /\ LOCK_AVAILABLE /\ currentLocks[c] \notin {None, Me}
        /\ status' = "in_use")
       => \E l \in LiveFor(c) : l.holder_id # Me]_vars

\* The acquire awaited by handler i is superseded: since it was sent the user
\* cleared the form, or switched the selector to another code.
Superseded(i) ==
  \/ selected = None /\ status = "cleared"
  \/ selected \in Codes \ {tasks[i].code}

\* C9: a grant that arrives for a superseded acquire does not set
\* currentLockCode, adds no cache entry and starts no heartbeat.
C9_LateGrantIgnored ==
  [][\A i \in Slots :
       (AcquireReply(i) /\ Succeeded(tasks[i].rpc) /\ Superseded(i))
       => (/\ currentLockCode' = currentLockCode
           /\ currentLocks' = currentLocks
           /\ heartbeatInterval' = heartbeatInterval)]_vars

\* The event at the head of the socket queue was generated before this
\* client's successful acquire of c: the lock_acquired event of that grant is
\* queued behind it, and the grant itself has already been applied locally.
StaleHead(c) ==
  /\ events # <<>>
  /\ Head(events).type \in {"lock_released", "lock_status_update"}
  /\ \E k \in 2..Len(events) :
       /\ events[k].type = "lock_acquired"
       /\ events[k].code = c /\ events[k].user = Me
  /\ currentLockCode = c /\ currentLocks[c] = Me

\* C10: delivering a lock_released or lock_status_update event that predates
\* the client's own successful acquire of c leaves the cache entry of c naming
\* this client and leaves c locally owned.
C10_StaleBroadcastKeepsSelf ==
  [][\A c \in Codes :
       (StaleHead(c) /\ (OnLockReleased \/ OnLockStatusUpdate))
       => (currentLocks'[c] = Me /\ currentLockCode' = c)]_vars

\* C11: when the client owns c locally and a lock_acquired event naming
\* another holder for c is delivered, the client stops treating c as locally
\* owned.  Stated for an event that is not stale: the holder it names has the
\* live lease of c at the coordinator when it is delivered.
C11_BroadcastRevokes ==
  [][(/\ OnLockAcquired
      /\ LOCK_AVAILABLE /\ currentLockCode # None
      /\ Head(events).code = currentLockCode
      /\ Head(events).user = Other
      /\ \E l \in LiveFor(currentLockCode) : l.holder_id = Other)
     => currentLockCode' = None]_vars

\* C12: whenever no code is locally owned, no heartbeat timer is running.
C12_NoTimerWithoutOwner == currentLockCode = None => ~heartbeatInterval

\* An acquire is sent while another code is locally owned only by the step
\* that resumes fillFromServer after its release of that code has settled.
SwitchOrdered ==
  Sends(AcquirePcs) =>
    \/ currentLockCode = None
    \/ \E i \in DOMAIN tasks' :
         tasks'[i].pc = "acquire_wait" /\ tasks'[i].code = currentLockCode
    \/ \E i \in Slots :
         /\ ReleaseSettled(i)
         /\ tasks[i].rpc.k # "req" /\ tasks[i].arg = currentLockCode

\* The acquire of a switch is denied by the coordinator, or refused from the
\* cache when fillFromServer resumes after the release.
SwitchFailed ==
  \/ \E i \in Slots : /\ AcquireReply(i) /\ tasks[i].kind = "switch"
                      /\ tasks[i].rpc = Denied
  \/ \E i \in Slots : /\ ReleaseSettled(i) /\ LOCK_AVAILABLE
                      /\ Len(tasks') < Len(tasks)

C14_DenialNamesHolder ==
  [][\A i \in Slots :
       (/\ AcquireReply(i) /\ tasks[i].rpc = Denied
        /\ \E l \in LiveFor(tasks[i].code) : l.holder_id = Other)
       => (/\ status' = "in_use"
           /\ currentLocks'[tasks[i].code] = Other
           /\ currentLockCode' = currentLockCode
           /\ LOCK_AVAILABLE' = LOCK_AVAILABLE
           /\ ~Sends(AcquirePcs))]_vars

\* C15: whenever the acquire RPC fails (the fetch rejects, the body is not
\* JSON or cannot be parsed, or the HTTP status is an error), acquireLock
\* returns true and fillFromServer goes on to load the record.
C15_FailureOpensRecord ==
  [][\A i \in Slots :
       (AcquireReply(i) /\ tasks[i].rpc \in Failures)
       => (Len(tasks') = Len(tasks) /\ tasks'[i].pc = "data_wait")]_vars

\* A handler resumes after the lock RPC it awaited.
LockRpcSettled(i) ==
  \/ AcquireReply(i) \/ LocksSettled(i)
  \/ ReleaseSettled(i) \/ Release2Settled(i) \/ ClearSettled(i)

\* C16: when the fetch of an acquire, release or status RPC rejects, the
\* session is DEGRADED afterwards.
C16_FailedRpcDegrades ==
  [][\A i \in Slots :
       (LockRpcSettled(i) /\ tasks[i].rpc = Rejected) => ~LOCK_AVAILABLE']_vars

\* C17: a release sent with the page visible that was not confirmed by the
\* coordinator does not make the client treat the code as released:
\* currentLockCode and the cache entry of the code stay as they were.
C17_ReleaseNeedsConfirmation ==
  [][\A i \in Slots :
       (/\ ReleaseSettled(i) \/ Release2Settled(i) \/ ClearSettled(i)
        /\ ~Succeeded(tasks[i].rpc)
        /\ currentLockCode = tasks[i].arg)
       => (/\ currentLockCode' = currentLockCode
           /\ currentLocks'[tasks[i].arg] = currentLocks[tasks[i].arg])]_vars

\* C18: a release triggered by the tab becoming hidden or by pagehide is fire
\* and forget: in the step that dispatches it the heartbeat is stopped,
\* currentLockCode is cleared, the own cache entry is removed, and no handler
\* is left waiting for a response.
C18_FireAndForget ==
  [][((TabHidden \/ PageHide) /\ currentLockCode # None)
     => (/\ ~heartbeatInterval'
         /\ currentLockCode' = None
         /\ currentLocks'[currentLockCode] # Me
         /\ tasks' = tasks)]_vars

\* C19: after the client has released c locally with a fire-and-forget
\* release, it sends no renew for c; stated for as long as that release is
\* still on its way, arriving or not.  (Only then can the lease of c lapse and
\* the other holder's later acquire be granted when the release is lost.)
C19_NoRenewAfterLocalRelease ==
  [][\A c \in beacons : ~(HeartbeatTick /\ currentLockCode = c)]_vars

\* The ACTIVE client has nothing left to do for its cache: no event is on its
\* way to it, no release is on its way to the coordinator, and no handler is
\* suspended other than a heartbeat.
Settled ==
  /\ Active /\ events = <<>> /\ beacons = {}
  /\ \A i \in Slots : tasks[i].kind = "hb"

\* From a settled state, as long as nobody intervenes (no user gesture, no
\* operation of the other holder, no resynchronisation, no lapse, no failure),
\* the client stays settled with its cache as it is.
SettledStays ==
  [][(Settled /\ acts' = acts) => (Settled' /\ currentLocks' = currentLocks)]_vars

\* C20: once the lease table has stopped changing and the ACTIVE client has
\* handled everything that was sent to it, its cache equals the coordinator's
\* live leases.
C20_SettledCacheIsCurrent == Settled => currentLocks = StatusSnapshot

\* C21: when acquireLock(c) returns from a grant, c is locally owned, the
\* cache entry of c names the local user, and the heartbeat timer is running.
C21_GrantEntersLockedBySelf ==
  [][\A i \in Slots :
       (AcquireReply(i) /\ Succeeded(tasks[i].rpc))
       => (/\ currentLockCode' = tasks[i].code
           /\ currentLocks'[tasks[i].code] = Me
           /\ heartbeatInterval')]_vars

\* The interval callback can send a renew: the guard of HeartbeatTick.
HeartbeatDue ==
  /\ intervals > 0 /\ currentLockCode # None
  /\ HasRoom /\ \A i \in Slots : tasks[i].kind # "hb"

\* C22: a heartbeat whose renew request fails changes nothing: the session
\* mode, currentLockCode, the cache and the heartbeat timer are as before, and
\* with the timer running for an owned code the next heartbeat can be sent.
C22_FailedHeartbeatChangesNothing ==
  [][\A i \in Slots :
       HeartbeatFailed(i)
       => (/\ LOCK_AVAILABLE' = LOCK_AVAILABLE
           /\ currentLockCode' = currentLockCode
           /\ currentLocks' = currentLocks
           /\ heartbeatInterval' = heartbeatInterval
           /\ initPc' = initPc
           /\ (heartbeatInterval /\ currentLockCode # None) => HeartbeatDue')]_vars

\* C22 witness: a heartbeat failed and was logged, the code is still locally
\* owned with the timer running, and the next heartbeat has been sent for it.
C22_NextHeartbeatSent ==
  /\ warned /\ Active /\ heartbeatInterval /\ currentLockCode # None
  /\ \E i \in Slots : /\ tasks[i].pc = "hb_wait" /\ tasks[i].rpc.k = "req"
                      /\ tasks[i].arg = currentLockCode

\* C23: in an ACTIVE session, delivering a lock_status_update event leaves the
\* cache equal to the lease table the event carries, and delivering a
\* lock_released event for c leaves the cache without an entry for c and with
\* every other entry as it was.
C23_EventsApplied ==
  [][/\ (Active /\ OnLockStatusUpdate) => currentLocks' = Head(events).locks
     /\ (Active /\ OnLockReleased) =>
          currentLocks' = [currentLocks EXCEPT ![Head(events).code] = None]]_vars

\* C23 witness: the probe seeded the cache with the other holder's lease of A;
\* that lease lapsed without a release, and a lock_status_update event that no
\* longer carries it has been delivered: the cache entry of A is gone.
C23_SnapshotDropped ==
  /\ Active /\ events = <<>> /\ tasks = <<>> /\ options = {}
  /\ probe.locks["A"] = Other /\ currentLocks["A"] = None
  /\ \E l \in leases :
       l.resource_code = "A" /\ l.holder_id = Other /\ ~Live(l)

\* The live lease of c is h's.
Holds(h, c) == \E l \in LiveFor(c) : l.holder_id = h

\* The leases of c are the same before and after the step.
SameLease(c) ==
  {l \in leases' : l.resource_code = c} = {l \in leases : l.resource_code = c}

\* C24: an acquire by the holder of the live lease of a resource is granted
\* and leaves the lease, its acquired_at included, as it was.
C24_ReentrantAcquire ==
  [][/\ \A c \in Codes :
          (OtherAcquire(c) /\ Holds(Other, c))
          => (AcquireGranted(c, Other) /\ SameLease(c))
     /\ \A i \in Slots :
          (CoordAcquire(i) /\ Holds(Me, tasks[i].arg))
          => (/\ tasks'[i].rpc = Response(TRUE, "json", "ok", NoLocks)
              /\ SameLease(tasks[i].arg))]_vars

\* C24 witness: the client's first acquire created the lease of a code at
\* time 2 and its grant was applied; a later acquire of the same code by the
\* client was granted too, and the lease still carries acquired_at = 2.
C24_GrantedAgain ==
  \E i \in Slots :
    /\ tasks[i].pc = "acquire_wait"
    /\ tasks[i].rpc = Response(TRUE, "json", "ok", NoLocks)
    /\ currentLockCode = tasks[i].arg
    /\ Now >= 3
    /\ \E l \in LiveFor(tasks[i].arg) : l.holder_id = Me /\ l.acquired_at = 2

\* h has a lease of c that was not renewed for lease_ttl or longer.
Expired(h, c) ==
  \E l \in leases :
    l.resource_code = c /\ l.holder_id = h /\ l.age >= LeaseTTL

\* C25: an acquire of c by a holder other than the one whose lease of c has
\* not been renewed for lease_ttl is granted, and an acquire of c by a holder
\* other than the one whose lease of c is live is denied and changes nothing.
C25_LeaseExpiry ==
  [][/\ \A c \in Codes :
          OtherAcquire(c) =>
            /\ (Expired(Me, c) /\ ~Holds(Other, c)) => Holds(Other, c)'
            /\ (~Expired(Me, c) /\ \E l \in leases :
                   l.resource_code = c /\ l.holder_id = Me)
               => (leases' = leases /\ events' = events)
     /\ \A i \in Slots :
          CoordAcquire(i) =>
            /\ (Expired(Other, tasks[i].arg) /\ ~Holds(Me, tasks[i].arg))
               => (/\ Holds(Me, tasks[i].arg)'
                   /\ tasks'[i].rpc = Response(TRUE, "json", "ok", NoLocks))
            /\ (~Expired(Other, tasks[i].arg) /\ \E l \in leases :
                   l.resource_code = tasks[i].arg /\ l.holder_id = Other)
               => (leases' = leases /\ tasks'[i].rpc = Denied)]_vars

\* C25 witness: the client was granted A and still treats it as owned; its
\* lease lapsed and the other holder's acquire of A was granted.  (With four
\* interventions there is no other way to this state: prefecture, code, lapse,
\* the other holder's acquire.)
C25_TakenOverAfterExpiry ==
  /\ Now = 4 /\ Active /\ currentLockCode = "A"
  /\ Holds(Other, "A")
  /\ \A l \in leases : l.holder_id = Other

\* What a release of c by h must respect: no lease of another holder is
\* removed, and with no lease of c in h's name the lease table stays as it is
\* and nothing is published.
ReleaseGuarded(h, c) ==
  /\ \A l \in leases : l.holder_id # h => l \in leases'
  /\ (\A l \in leases : ~(l.resource_code = c /\ l.holder_id = h))
     => (leases' = leases /\ events' = events)

\* C26: release is idempotent and owner-guarded: a release of a lease that is
\* absent (never held, or already released) or that belongs to another holder
\* is answered ok and leaves the lease table unchanged, and no release removes
\* another holder's lease.
C26_ReleaseIdempotent ==
  [][/\ \A c \in Codes : OtherRelease(c) => ReleaseGuarded(Other, c)
     /\ \A c \in Codes : CoordBeacon(c) => ReleaseGuarded(Me, c)
     /\ \A i \in Slots :
          CoordRelease(i) =>
            /\ ReleaseGuarded(Me, tasks[i].arg)
            /\ tasks'[i].rpc = Response(TRUE, "json", "ok", NoLocks)]_vars

\* C26 witness: the client's lease of A lapsed and the other holder acquired A
\* at time 3; the client's release of A, sent at time 5, was answered ok, the
\* other holder's lease is still live, and no lock_released was published (the
\* events of the two grants are still queued, nothing behind them).
C26_ForeignRelease ==
  /\ Now = 5
  /\ events = <<Event("lock_acquired", "A", Me, NoLocks),
                Event("lock_acquired", "A", Other, NoLocks)>>
  /\ \E i \in Slots :
       /\ tasks[i].pc \in ReleasePcs /\ tasks[i].arg = "A"
       /\ tasks[i].rpc = Response(TRUE, "json", "ok", NoLocks)
  /\ \E l \in LiveFor("A") : l.holder_id = Other /\ l.acquired_at = 3

\* C27: when the client's lease of c has not been renewed for lease_ttl, the
\* other holder's acquire of c is granted and leaves the client without a
\* lease of c; a renew from the client that arrives afterwards is answered
\* not_owner and leaves the lease table, the holder of c included, as it was.
C27_CrashTakeover ==
  [][/\ \A c \in Codes :
          (OtherAcquire(c) /\ Expired(Me, c) /\ LiveFor(c) = {})
          => (/\ Holds(Other, c)'
              /\ \A l \in leases' : l.resource_code = c => l.holder_id = Other)
     /\ \A i \in Slots :
          (CoordRenew(i) /\ Holds(Other, tasks[i].arg))
          => (/\ RenewResult(tasks[i].arg, Me) = "not_owner"
              /\ leases' = leases)]_vars

\* C27 witness: a heartbeat of the client failed, its lease of A lapsed and the
\* other holder acquired A; the client, still treating A as owned, has sent
\* another renew for A, which the coordinator has yet to answer.
C27_LateHeartbeat ==
  /\ warned /\ currentLockCode = "A"
  /\ Holds(Other, "A") /\ \A l \in leases : l.holder_id = Other
  /\ \E i \in Slots :
       tasks[i].pc = "hb_wait" /\ tasks[i].arg = "A" /\ tasks[i].rpc.k = "req"

\* Hand-over, first half: while the other holder has the live lease of c, a
\* status query of the client is answered with c held by that holder and the
\* client's cache shows it; an acquire of c that reaches the coordinator is
\* denied.
HeldByOtherShown ==
  /\ \A i \in Slots, c \in Codes :
       (Holds(Other, c) /\ CoordStatus(i)) => tasks'[i].rpc.locks[c] = Other
  /\ \A i \in Slots, c \in Codes :
       (/\ Succeeded(tasks[i].rpc) /\ tasks[i].rpc.locks[c] = Other
        /\ LocksSettled(i))
       => (/\ currentLocks'[c] = Other
           /\ (LOCK_AVAILABLE /\ c \in options /\ c # currentLockCode)
                => c \in disabled')
  /\ \A i \in Slots :
       (Holds(Other, tasks[i].arg) /\ CoordAcquire(i))
       => (tasks'[i].rpc = Denied /\ leases' = leases)

\* Hand-over, the client's acquire of c in an ACTIVE session: with the cache
\* showing c held by the other holder (and c not locally owned) it is refused
\* naming that holder and nothing is sent; with no cache entry for c it is
\* sent to the coordinator.
AcquireByCache ==
  \A c \in Codes :
    (LOCK_AVAILABLE /\ currentLocks[c] # Me /\ AcquireCalled(c)) =>
      IF currentLocks[c] = None
        THEN /\ Sends(AcquirePcs)
             /\ \E i \in DOMAIN tasks' :
                  tasks'[i].pc = "acquire_wait" /\ tasks'[i].arg = c
        ELSE (currentLockCode # c /\ Holds(Other, c))
             => (/\ status' = "in_use" /\ ~Sends(AcquirePcs)
                 /\ currentLockCode' # c /\ currentLocks'[c] = Other)

\* Hand-over, second half: the other holder's release of c deletes its lease
\* and publishes lock_released; delivering that event removes the cache entry
\* of c; the coordinator grants an acquire of c when no live lease of c is
\* left; applying the grant in the ACTIVE session makes c locally owned.
ReleasedThenGranted ==
  /\ \A c \in Codes :
       (Holds(Other, c) /\ OtherRelease(c))
       => (/\ LiveFor(c)' = {}
           /\ socket => events' = Append(events,
                          Event("lock_released", c, Other, NoLocks)))
  /\ (LOCK_AVAILABLE /\ OnLockReleased) => currentLocks'[Head(events).code] = None
  /\ \A i \in Slots :
       (LiveFor(tasks[i].arg) = {} /\ CoordAcquire(i))
       => (/\ tasks'[i].rpc = Response(TRUE, "json", "ok", NoLocks)
           /\ Holds(Me, tasks[i].arg)')
  /\ \A i \in Slots :
       (LOCK_AVAILABLE /\ Succeeded(tasks[i].rpc) /\ AcquireReply(i))
       => (currentLockCode' = tasks[i].code /\ currentLocks'[tasks[i].code] = Me)

C29_SingleOwner ==
  \A c \in Codes : ~(Active /\ currentLockCode = c /\ Holds(Other, c))

\* A release of c by the client is on its way to the coordinator.
ReleaseInFlight(c) ==
  \/ c \in beacons
  \/ \E i \in Slots :
       tasks[i].pc \in ReleasePcs /\ tasks[i].arg = c /\ tasks[i].rpc.k = "req"

\* The client was granted c in this ACTIVE session: the fillFromServer that
\* acquired c went on to load the record (in an ACTIVE session acquireLock
\* returns true only from a grant).
GrantApplied(c) ==
  \/ currentData = c
  \/ \E i \in Slots : tasks[i].pc = "data_wait" /\ tasks[i].code = c

\* C30: in an ACTIVE session every live lease the coordinator holds for the
\* client is the locally owned code or has a release on its way.  Stated at
\* the step that makes a code locally owned, and for the leases the client
\* knows of: when a grant is applied, every live lease of another code that
\* the client was granted has a release on its way.
C30_NoLeakedLease ==
  [][\A i \in Slots :
       (Active /\ Succeeded(tasks[i].rpc) /\ AcquireReply(i)) =>
         \A l \in leases :
           (/\ l.holder_id = Me /\ Live(l)
            /\ l.resource_code # tasks[i].code
            /\ GrantApplied(l.resource_code))
           => ReleaseInFlight(l.resource_code)]_vars

\* The release of the locally owned code was sent with fetch and has not
\* settled: releaseLock stopped the timer and its finally block is still due.
OwnReleasePending ==
  \E i \in Slots : tasks[i].pc \in ReleasePcs /\ tasks[i].arg = currentLockCode

\* C31: in every state of an ACTIVE session with a locally owned code (and no
\* release of that code awaiting its answer) the heartbeat timer is running;
\* a releaseLock for another code does not stop it.
C31_OwnerHasHeartbeat ==
  (Active /\ currentLockCode # None /\ ~OwnReleasePending) => heartbeatInterval

\* C32: in every state of an ACTIVE session with a record loaded, the page
\* shown and no handler suspended, the locally owned code is the code of the
\* loaded record.
C32_EditingImpliesLock ==
  (Active /\ visible /\ tasks = <<>> /\ currentData # None)
    => currentLockCode = currentData

\* fillFromServer for the code it was granted ends without loading the record:
\* in the catch block, or after the release that follows a not-ok answer.
FillGaveUp(i) ==
  \/ /\ tasks[i].pc = "data_wait" /\ currentLockCode = tasks[i].code
     /\ Len(tasks') < Len(tasks)
     /\ DataSettled(i, "notok") \/ DataSettled(i, "throw")
  \/ /\ tasks[i].pc = "release2_wait" /\ tasks[i].kind = "fill"
     /\ Release2Settled(i)

\* C33: when a fillFromServer that was granted the lock of a code ends without
\* loading the record, that code is not locally owned afterwards (so no
\* heartbeat runs for it).
C33_FailedLoadReleases ==
  [][\A i \in Slots :
       (Active /\ FillGaveUp(i)) => currentLockCode' # tasks[i].code]_vars

\* A call of releaseLock(c) finishes in this step: without an await (the
\* DEGRADED return or sendBeacon) or when the fetch it awaited has settled.
ReleaseDone(c) ==
  \/ \E i \in Slots :
       /\ tasks[i].pc \in ReleasePcs /\ tasks[i].arg = c
       /\ tasks[i].rpc.k # "req"
       /\ ReleaseSettled(i) \/ Release2Settled(i) \/ ClearSettled(i)
  \/ /\ currentLockCode = c
     /\ TabHidden
  \/ /\ currentLockCode = c /\ ReleaseMode(Cur, visible) # "fetch"
     /\ \/ ClearForm
        \/ PageHide
        \/ selected # c /\ FillClick
        \/ \E d \in Codes \ {c} : SelectCode(d)
  \/ \E i \in Slots :
       /\ tasks[i].pc = "data_wait" /\ tasks[i].code = c
       /\ ReleaseMode(Cur, visible) # "fetch"
       /\ DataSettled(i, "notok")

\* What releaseLock(c) leaves: c is not locally owned, the cache does not name
\* the local user for c, an entry of c naming another user and the entries of
\* the other codes are as they were.
ReleasedLocally(c) ==
  /\ currentLockCode' # c
  /\ currentLocks'[c] # Me
  /\ currentLocks[c] = Other => currentLocks'[c] = Other
  /\ \A d \in Codes \ {c} : currentLocks'[d] = currentLocks[d]

\* C34 (as stated): whenever a releaseLock(c) finishes, whatever became of its
\* request, c is not locally owned, the cache has no own entry for c, and the
\* rest of the cache is unchanged.
C34_ReleaseCompletesLocally ==
  [][\A c \in Codes : ReleaseDone(c) => ReleasedLocally(c)]_vars

\* C38: at most one heartbeat timer is live in every state, and it is the one
\* heartbeatInterval refers to; every renew that is sent names the code that
\* is locally owned when the timer fires; with no code owned a tick sends
\* nothing.
C38_OneHeartbeatTimer ==
  [][/\ intervals' <= 1
     /\ heartbeatInterval' <=> intervals' = 1
     /\ Sends(RenewPcs) =>
          /\ currentLockCode # None
          /\ tasks'[Len(tasks')].arg = currentLockCode]_vars

\* C38 witness: the client was granted A and then B with no release between
\* (startHeartbeat ran with a timer already live); one timer is live and the
\* renew it sent names B, the code owned now.
C38_RestartedTimerRenews ==
  /\ Active /\ currentLockCode = "B" /\ currentData = "A"
  /\ currentLocks["A"] = Me /\ currentLocks["B"] = Me
  /\ Holds(Me, "A") /\ Holds(Me, "B")
  /\ heartbeatInterval /\ intervals = 1
  /\ \E i \in Slots : tasks[i].pc = "hb_wait" /\ tasks[i].arg = "B"

\* The user, asked about unsaved changes after clicking the logout link,
\* cancels: the cancel button of the dialog (ui.js), or confirm() refused
\* (main.js).
LogoutCancelled == LogoutCancel \/ (isDirty /\ LogoutClick(FALSE))

\* C35: when the user clicks logout with unsaved changes and cancels, the
\* client still owns the code it owned when the link was clicked.
C35_CancelKeepsLock ==
  [][LogoutCancelled => currentLockCode' = heldAtClick']_vars

\* The save request of a "save and logout" handler fails or is answered
\* not-ok.
SaveFailed(i) ==
  /\ tasks[i].pc = "save_wait"
  /\ SaveSettled(i, "notok") \/ SaveSettled(i, "throw")

\* C36: when the save of "save and logout" fails, the user stays on the page,
\* isDirty stays true and the lock is kept: the locally owned code and the
\* heartbeat timer are as before and no release is sent.
C36_FailedSaveStays ==
  [][\A i \in Slots :
       SaveFailed(i) =>
         /\ href' = "page"
         /\ isDirty => isDirty'
         /\ currentLockCode' = currentLockCode
         /\ heartbeatInterval' = heartbeatInterval
         /\ ~Sends(ReleasePcs)]_vars

\* A timeout logs the user out.
AutoLogout == href' = "logout" /\ (FinalFires \/ IdleFires)

\* C37: the automatic logout happens only when a full idle period has passed
\* since the last user activity.
C37_LogoutOnlyWhenIdle ==
  [][AutoLogout => sinceActivity >= IdleTimeout]_vars

====
